---------------------------- MODULE Spec2Model ----------------------------
(***************************************************************************)
(* A model of cloudflare.py: the CloudFlareImages client.  The client      *)
(* holds four credentials and the auth headers built from them; every      *)
(* method builds a URL and a payload and issues HTTP requests.  The HTTP   *)
(* transport, the remote service and the file system are the environment.  *)
(*                                                                         *)
(* Strings the code only passes around are TLA+ strings.  Strings the code *)
(* inspects (the domain of getCustomizedURL, a file extension) are         *)
(* sequences of one-character strings.  A request URL is the sequence of   *)
(* the pieces its f-string concatenates.                                   *)
(***************************************************************************)
EXTENDS Integers, Sequences, FiniteSets, TLC

VARIABLES
    apiKey,                 \* self.apiKey
    accountId,              \* self.accountId
    email,                  \* self.email
    accountHash,            \* self.accountHash
    requestHeaders,         \* self.requestHeaders
    authenticatedUploadURL, \* self.authenticatedUploadURL
    ctor,                   \* the arguments __init__ was called with
    pc,                     \* where the client's single thread is
    lastCall,               \* the method called last and its arguments
    result,                 \* what that call returned or raised
    reqs,                   \* the HTTP requests that call issued, in order
    resps,                  \* what the transport did with each of them
    details,                \* updateVariant's local `details`
    openHandles,            \* file objects opened by upload and not closed
    serverVariants,         \* the remote service's variants
    staleAtPost             \* whether the service's variant had changed since
                            \* updateVariant's GET when its POST was sent

vars == <<apiKey, accountId, email, accountHash, requestHeaders,
          authenticatedUploadURL, ctor, pc, lastCall, result, reqs, resps,
          details, openHandles, serverVariants, staleAtPost>>

selfVars == <<apiKey, accountId, email, accountHash, requestHeaders,
              authenticatedUploadURL>>

-----------------------------------------------------------------------------
(* Bounds *)

MaxBodyLen == 1       \* length of each free part of a domain string
MaxHandles == 1       \* file handles that may be open at once

-----------------------------------------------------------------------------
(* Class constants *)

ENDPOINT_BASE == "https://api.cloudflare.com/client/v4"

SUPPORTED_FORMATS ==
    { <<".", "p", "n", "g">>, <<".", "g", "i", "f">>, <<".", "j", "p", "e", "g">>,
      <<".", "j", "p", "g">>, <<".", "w", "e", "b", "p">>, <<".", "s", "v", "g">> }

MAX_WIDTH == 10000
MAX_HEIGHT == 10000
MAX_SIZE_MB == 10

None == "None"

-----------------------------------------------------------------------------
(* Python string primitives, on sequences of characters *)

LowerChar(c) ==
    CASE c = "H" -> "h" [] c = "T" -> "t" [] c = "P" -> "p" [] c = "S" -> "s"
      [] c = "A" -> "a" [] c = "B" -> "b" [] c = "N" -> "n" [] c = "G" -> "g"
      [] c = "M" -> "m"
      [] OTHER -> c

UpperChar(c) ==
    CASE c = "h" -> "H" [] c = "t" -> "T" [] c = "p" -> "P" [] c = "s" -> "S"
      [] c = "a" -> "A" [] c = "b" -> "B" [] c = "n" -> "N" [] c = "g" -> "G"
      [] c = "m" -> "M"
      [] OTHER -> c

\* str.lower()
Lower(s) == [i \in 1..Len(s) |-> LowerChar(s[i])]

\* str.startswith(prefix)
StartsWith(s, prefix) ==
    /\ Len(s) >= Len(prefix)
    /\ SubSeq(s, 1, Len(prefix)) = prefix

\* str.replace(old, new): every non-overlapping occurrence, left to right
RECURSIVE Replace(_, _, _)
Replace(s, old, new) ==
    IF Len(s) < Len(old) THEN s
    ELSE IF StartsWith(s, old)
         THEN new \o Replace(SubSeq(s, Len(old) + 1, Len(s)), old, new)
         ELSE <<Head(s)>> \o Replace(Tail(s), old, new)

HTTP == <<"h", "t", "t", "p", ":", "/", "/">>
HTTPS == <<"h", "t", "t", "p", "s", ":", "/", "/">>

-----------------------------------------------------------------------------
(* getCustomizedURL *)

DeliveryPath(hash, imageId, variant) ==
    <<"/cdn-cgi/imagedelivery/", hash, "/", imageId, "/", variant>>

\* NormalizeDomain without its elif branch: a bare domain is left bare
NormalizeDomain_NoPrefix(domain) ==
    LET lowered == Lower(domain)
    IN  IF StartsWith(lowered, HTTP) THEN Replace(lowered, HTTP, HTTPS)
        ELSE lowered

NormalizeDomain(domain) ==
    LET lowered == Lower(domain)
    IN  IF StartsWith(lowered, HTTP) THEN Replace(lowered, HTTP, HTTPS)
        ELSE IF ~StartsWith(lowered, HTTPS) THEN HTTPS \o lowered
        ELSE lowered

CustomizedURL(hash, domain, imageId, variant) ==
    NormalizeDomain(domain) \o DeliveryPath(hash, imageId, variant)

-----------------------------------------------------------------------------
(* The values the environment and the callers supply *)

CredentialSets ==
    { [apiKey |-> "key-1", accountId |-> "acct-1", email |-> "one@example.com",
       accountHash |-> "hash-1"],
      [apiKey |-> "key-2", accountId |-> "acct-2", email |-> "two@example.com",
       accountHash |-> "hash-2"] }

ImageIds == {"id1", "ID2"}
VariantNames == {"thumb", "Hero"}
Fits == {"cover", "crop"}
MetadataPolicies == {"none", "keep"}
Dims == {100, 200}
Pages == {1, 2}
PerPages == {50}
MetaDatas == {None, "{}", "{'k': 'v'}"}
Expiries == {None, "2030-01-01T00:00:00Z"}

\* The options of a variant, as the service stores and returns them
VariantOptions == [fit : Fits, metadata : MetadataPolicies, width : Dims, height : Dims]

\* The variants other parties set up on the service
ServerOptions ==
    { [fit |-> "cover", metadata |-> "none", width |-> 100, height |-> 200],
      [fit |-> "crop", metadata |-> "keep", width |-> 200, height |-> 100] }

\* The service holds at most one variant at a time: a function from its name
ServerStates ==
    {<<>>} \cup { (n :> o) : n \in VariantNames, o \in ServerOptions }

\* Local files: what splitext gives of the path, whether open() succeeds, and
\* the image's size
Files ==
    { [stem |-> "photo", ext |-> <<".", "P", "N", "G">>, readable |-> TRUE,
       width |-> 800, height |-> 600, sizeMB |-> 1],
      [stem |-> "scan", ext |-> <<".", "b", "m", "p">>, readable |-> TRUE,
       width |-> 20000, height |-> 600, sizeMB |-> 12],
      [stem |-> "missing", ext |-> <<".", "p", "n", "g">>, readable |-> FALSE,
       width |-> 0, height |-> 0, sizeMB |-> 0] }

\* What createDirectUploadLink may have returned, or what a caller passes for it
Descriptors ==
    { [success |-> TRUE,
       result |-> [id |-> "img-1", uploadURL |-> "https://upload.example/one"]],
      [success |-> TRUE,
       result |-> [id |-> "img-2", uploadURL |-> "https://x/up"]],
      [success |-> FALSE] }

\* A response body: `valid` says whether it decodes as JSON, `doc` is what it
\* decodes to
OkBody == [valid |-> TRUE, doc |-> [success |-> TRUE]]
ErrBody == [valid |-> TRUE, doc |-> [success |-> FALSE]]
HtmlBody == [valid |-> FALSE, doc |-> [success |-> FALSE]]

\* What the transport does with a request: raise, or hand back a response
TransportError == [ok |-> FALSE, body |-> HtmlBody]
Responded(body) == [ok |-> TRUE, body |-> body]
Outcomes == {TransportError} \cup { Responded(b) : b \in {OkBody, ErrBody, HtmlBody} }

\* The service's answer to GET variants/{name}
VariantDetailsBody(name) ==
    IF name \in DOMAIN serverVariants
    THEN [valid |-> TRUE,
          doc |-> [success |-> TRUE,
                   result |-> (name :> [options |-> serverVariants[name]])]]
    ELSE ErrBody

VariantOutcomes(name) ==
    {TransportError, Responded(HtmlBody), Responded(VariantDetailsBody(name))}

-----------------------------------------------------------------------------
(* Results of a call *)

Return(v) == [kind |-> "return", value |-> v]
Raise(e) == [kind |-> "raise", value |-> e]
NoResult == [kind |-> "none", value |-> None]

\* requests.<method>(...).json()
JsonOf(outcome) ==
    IF ~outcome.ok THEN Raise("ConnectionError")
    ELSE IF ~outcome.body.valid THEN Raise("JSONDecodeError")
    ELSE Return(outcome.body.doc)

\* requests.<method>(...).text
TextOf(outcome) ==
    IF ~outcome.ok THEN Raise("ConnectionError")
    ELSE Return(outcome.body)

-----------------------------------------------------------------------------
(* __init__ *)

\* RequestHeaders with the two values exchanged
RequestHeaders_Swapped(key, mail) ==
    ("X-Auth-Key" :> mail) @@ ("X-Auth-Email" :> key)

RequestHeaders(key, mail) ==
    ("X-Auth-Key" :> key) @@ ("X-Auth-Email" :> mail)

AuthenticatedUploadURL(acct) ==
    <<"accounts/", acct, "/images/v2/direct_upload">>

NoCall == [op |-> "__init__", args |-> <<>>]
NoDetails == [fit |-> None, metadata |-> None, width |-> 0, height |-> 0]

Construct(c) ==
    /\ apiKey = c.apiKey
    /\ accountId = c.accountId
    /\ email = c.email
    /\ accountHash = c.accountHash
    /\ requestHeaders = RequestHeaders(c.apiKey, c.email)
    /\ authenticatedUploadURL = AuthenticatedUploadURL(c.accountId)
    /\ ctor = c

Init ==
    /\ \E c \in CredentialSets : Construct(c)
    /\ pc = "idle"
    /\ lastCall = NoCall
    /\ result = NoResult
    /\ reqs = <<>>
    /\ resps = <<>>
    /\ details = NoDetails
    /\ openHandles = 0
    /\ serverVariants \in ServerStates
    /\ staleAtPost = FALSE

-----------------------------------------------------------------------------
(* Requests *)

Request(method, url, kind, data) ==
    [method |-> method, url |-> url, headers |-> requestHeaders,
     kind |-> kind, data |-> data]

ImagesURL == <<ENDPOINT_BASE, "/accounts/", accountId, "/images/v1">>
ImageURL(id) == <<ENDPOINT_BASE, "/accounts/", accountId, "/images/v1/", id>>
DirectUploadURL == <<ENDPOINT_BASE, "/accounts/", accountId, "/images/v2/direct_upload">>
VariantsURL == <<ENDPOINT_BASE, "/accounts/", accountId, "/images/v1/variants">>
VariantURL(name) ==
    <<ENDPOINT_BASE, "/accounts/", accountId, "/images/v1/variants/", name>>

\* Call adding a header to self.requestHeaders, the dict every method shares
Call_SharedHeaders(op, args, req, outcome) ==
    /\ pc = "idle"
    /\ lastCall' = [op |-> op, args |-> args]
    /\ reqs' = <<req>>
    /\ resps' = <<outcome>>
    /\ result' = JsonOf(outcome)
    /\ details' = NoDetails
    /\ staleAtPost' = FALSE
    /\ requestHeaders' = ("Accept" :> "application/json") @@ requestHeaders
    /\ UNCHANGED <<apiKey, accountId, email, accountHash, authenticatedUploadURL,
                   ctor, pc, openHandles, serverVariants>>

\* A method that issues one request and returns the decoded body
Call(op, args, req, outcome) ==
    /\ pc = "idle"
    /\ lastCall' = [op |-> op, args |-> args]
    /\ reqs' = <<req>>
    /\ resps' = <<outcome>>
    /\ result' = JsonOf(outcome)
    /\ details' = NoDetails
    /\ staleAtPost' = FALSE
    /\ UNCHANGED <<selfVars, ctor, pc, openHandles, serverVariants>>

listImages(page, perPage) ==
    \E outcome \in Outcomes :
        Call("listImages", [page |-> page, perPage |-> perPage],
             Request("GET", ImagesURL, "none", None), outcome)

\* DirectUploadPayload without its two tests: unset arguments are sent as None
DirectUploadPayload_Nulls(requireSignedURLs, metaData, expiry) ==
    ("requireSignedURLs" :> requireSignedURLs) @@ ("metadata" :> metaData)
        @@ ("expiry" :> expiry)

DirectUploadPayload(requireSignedURLs, metaData, expiry) ==
    LET p0 == ("requireSignedURLs" :> requireSignedURLs)
        p1 == IF metaData # None THEN p0 @@ ("metadata" :> metaData) ELSE p0
        p2 == IF expiry # None THEN p1 @@ ("expiry" :> expiry) ELSE p1
    IN  p2

createDirectUploadLink(requireSignedURLs, metaData, expiry) ==
    \E outcome \in Outcomes :
        Call("createDirectUploadLink",
             [requireSignedURLs |-> requireSignedURLs, metaData |-> metaData,
              expiry |-> expiry],
             Request("POST", DirectUploadURL, "params",
                     DirectUploadPayload(requireSignedURLs, metaData, expiry)),
             outcome)

listVariants ==
    \E outcome \in Outcomes :
        Call("listVariants", <<>>, Request("GET", VariantsURL, "none", None), outcome)

CreateVariantPayload(name, fitType, width, height, metaDataToSave, neverRequireSignedURLs) ==
    [id |-> name,
     options |-> [fit |-> fitType, metadata |-> metaDataToSave,
                  width |-> width, height |-> height],
     neverRequireSignedURLs |-> neverRequireSignedURLs]

createVariant(name, fitType, width, height, metaDataToSave, neverRequireSignedURLs) ==
    \E outcome \in Outcomes :
        Call("createVariant",
             [name |-> name, fitType |-> fitType, width |-> width, height |-> height,
              metaDataToSave |-> metaDataToSave,
              neverRequireSignedURLs |-> neverRequireSignedURLs],
             Request("POST", VariantsURL, "json",
                     CreateVariantPayload(name, fitType, width, height,
                                          metaDataToSave, neverRequireSignedURLs)),
             outcome)

deleteImage(id) ==
    \E outcome \in Outcomes :
        Call("deleteImage", [id |-> id],
             Request("DELETE", ImageURL(id), "none", None), outcome)

getVariantDetails(name) ==
    \E outcome \in VariantOutcomes(name) :
        Call("getVariantDetails", [name |-> name],
             Request("GET", VariantURL(name), "none", None), outcome)

deleteVariant(name) ==
    \E outcome \in Outcomes :
        Call("deleteVariant", [name |-> name],
             Request("DELETE", VariantURL(name), "none", None), outcome)

getImageDetails(id) ==
    \E outcome \in Outcomes :
        Call("getImageDetails", [id |-> id],
             Request("GET", ImageURL(id), "none", None), outcome)

-----------------------------------------------------------------------------
(* upload *)

\* open(imagePath, "rb") succeeds
CanOpen(imagePath) == imagePath.readable

UploadTarget(directUploadResponse) == directUploadResponse.result.uploadURL

\* UploadRequests with the request sent before the file is opened
UploadRequests_BeforeOpen(directUploadResponse, imagePath) ==
    IF "result" \notin DOMAIN directUploadResponse THEN <<>>
    ELSE <<Request("POST", UploadTarget(directUploadResponse), "files",
                   [file |-> imagePath])>>

\* The requests upload issues: none when open() or the descriptor lookup raises
UploadRequests(directUploadResponse, imagePath) ==
    IF ~CanOpen(imagePath) THEN <<>>
    ELSE IF "result" \notin DOMAIN directUploadResponse THEN <<>>
    ELSE <<Request("POST", UploadTarget(directUploadResponse), "files",
                   [file |-> imagePath])>>

\* UploadResult ending in .json() like every other method
UploadResult_Decoded(directUploadResponse, imagePath, outcome) ==
    IF ~CanOpen(imagePath) THEN Raise("IOError")
    ELSE IF "result" \notin DOMAIN directUploadResponse THEN Raise("KeyError")
    ELSE JsonOf(outcome)

\* What upload returns or raises
UploadResult(directUploadResponse, imagePath, outcome) ==
    IF ~CanOpen(imagePath) THEN Raise("IOError")
    ELSE IF "result" \notin DOMAIN directUploadResponse THEN Raise("KeyError")
    ELSE TextOf(outcome)

\* The file objects upload leaves open.  upload never closes the file it
\* opens.  After a normal return the object is unreferenced and the runtime
\* may or may not have finalized it (`collected`); after an exception the
\* traceback still refers to the frame that holds it.
UploadOpened(directUploadResponse, imagePath, outcome, collected) ==
    IF ~CanOpen(imagePath) THEN 0
    ELSE IF UploadResult(directUploadResponse, imagePath, outcome).kind = "return"
            /\ collected
         THEN 0
         ELSE 1

upload(directUploadResponse, imagePath) ==
    \E outcome \in Outcomes, collected \in BOOLEAN :
        /\ pc = "idle"
        /\ openHandles < MaxHandles
        /\ lastCall' = [op |-> "upload",
                        args |-> [directUploadResponse |-> directUploadResponse,
                                  imagePath |-> imagePath]]
        /\ reqs' = UploadRequests(directUploadResponse, imagePath)
        /\ resps' = IF UploadRequests(directUploadResponse, imagePath) = <<>>
                     THEN <<>> ELSE <<outcome>>
        /\ result' = UploadResult(directUploadResponse, imagePath, outcome)
        /\ openHandles' = openHandles
                + UploadOpened(directUploadResponse, imagePath, outcome, collected)
        /\ details' = NoDetails
        /\ staleAtPost' = FALSE
        /\ UNCHANGED <<selfVars, ctor, pc, serverVariants>>

\* The runtime finalizes a file object nothing refers to any more
Finalize ==
    /\ openHandles > 0
    /\ openHandles' = openHandles - 1
    /\ UNCHANGED <<selfVars, ctor, pc, lastCall, result, reqs, resps, details,
                   serverVariants, staleAtPost>>

\* _checkIfImageSupported: os.path.splitext(path)[1].lower() in SUPPORTED_FORMATS
checkIfImageSupported(path) == Lower(path.ext) \in SUPPORTED_FORMATS

-----------------------------------------------------------------------------
(* updateVariant: a GET of the variant's details, then a POST of the update *)

\* self.getVariantDetails(name)["result"][name]["options"]
ExtractDetails(fetched, name) ==
    IF fetched.kind # "return" THEN fetched
    ELSE IF "result" \notin DOMAIN fetched.value THEN Raise("KeyError")
    ELSE IF name \notin DOMAIN fetched.value.result THEN Raise("KeyError")
    ELSE Return(fetched.value.result[name].options)

UpdatePayload(d, fitType, width, height, metaDataToSave) ==
    [fit |-> IF d.fit # fitType THEN fitType ELSE d.fit,
     metadata |-> IF d.metadata # metaDataToSave THEN metaDataToSave ELSE d.metadata,
     width |-> IF d.width # width THEN width ELSE d.width,
     height |-> IF d.height # height THEN width ELSE d.height]

updateVariant_get(name, fitType, width, height, metaDataToSave) ==
    \E outcome \in VariantOutcomes(name) :
        LET got == ExtractDetails(JsonOf(outcome), name)
        IN  /\ pc = "idle"
            /\ lastCall' = [op |-> "updateVariant",
                            args |-> [name |-> name, fitType |-> fitType,
                                      width |-> width, height |-> height,
                                      metaDataToSave |-> metaDataToSave]]
            /\ reqs' = <<Request("GET", VariantURL(name), "none", None)>>
            /\ resps' = <<outcome>>
            /\ IF got.kind = "return"
               THEN /\ details' = got.value
                    /\ result' = NoResult
                    /\ pc' = "updateVariant_post"
               ELSE /\ details' = NoDetails
                    /\ result' = got
                    /\ pc' = "idle"
            /\ staleAtPost' = FALSE
            /\ UNCHANGED <<selfVars, ctor, openHandles, serverVariants>>

\* updateVariant_post reading the variant again and giving up when it changed
updateVariant_post_Detects ==
    \E outcome \in Outcomes :
        LET a == lastCall.args
            changed == serverVariants # (a.name :> details)
        IN  /\ pc = "updateVariant_post"
            /\ reqs' = IF changed THEN reqs
                       ELSE Append(reqs,
                                Request("POST", VariantURL(a.name), "json",
                                        UpdatePayload(details, a.fitType, a.width,
                                                      a.height, a.metaDataToSave)))
            /\ resps' = IF changed THEN resps ELSE Append(resps, outcome)
            /\ result' = IF changed THEN Raise("Conflict") ELSE JsonOf(outcome)
            /\ pc' = "idle"
            /\ staleAtPost' = changed
            /\ UNCHANGED <<selfVars, ctor, lastCall, details, openHandles,
                           serverVariants>>

updateVariant_post ==
    \E outcome \in Outcomes :
        LET a == lastCall.args
        IN  /\ pc = "updateVariant_post"
            /\ reqs' = Append(reqs,
                    Request("POST", VariantURL(a.name), "json",
                            UpdatePayload(details, a.fitType, a.width, a.height,
                                          a.metaDataToSave)))
            /\ resps' = Append(resps, outcome)
            /\ result' = JsonOf(outcome)
            /\ pc' = "idle"
            /\ staleAtPost' = (serverVariants # (a.name :> details))
            /\ UNCHANGED <<selfVars, ctor, lastCall, details, openHandles,
                           serverVariants>>

\* Another party creates, changes or deletes a variant on the service
ServerStep ==
    /\ serverVariants' \in ServerStates \ {serverVariants}
    /\ UNCHANGED <<selfVars, ctor, pc, lastCall, result, reqs, resps, details,
                   openHandles, staleAtPost>>

-----------------------------------------------------------------------------
(* getCustomizedURL: no request *)

getCustomizedURL(domain, imageId, variant) ==
    /\ pc = "idle"
    /\ lastCall' = [op |-> "getCustomizedURL",
                    args |-> [domain |-> domain, imageId |-> imageId,
                              variant |-> variant]]
    /\ reqs' = <<>>
    /\ resps' = <<>>
    /\ result' = Return(CustomizedURL(accountHash, domain, imageId, variant))
    /\ details' = NoDetails
    /\ staleAtPost' = FALSE
    /\ UNCHANGED <<selfVars, ctor, pc, openHandles, serverVariants>>

\* The domains the callers of the client pass in the full specification
SampleDomains ==
    { <<"a", ".", "b">>, <<"H", "T", "T", "P", ":", "/", "/", "A", ".", "b">>,
      HTTPS \o <<"a", ".", "b">> }

-----------------------------------------------------------------------------
(* The client under any sequence of calls *)

Next ==
    \/ \E page \in Pages, perPage \in PerPages : listImages(page, perPage)
    \/ \E r \in BOOLEAN, m \in MetaDatas, e \in Expiries :
            createDirectUploadLink(r, m, e)
    \/ \E d \in Descriptors, f \in Files : upload(d, f)
    \/ listVariants
    \/ \E n \in VariantNames, o \in ServerOptions, s \in BOOLEAN :
            createVariant(n, o.fit, o.width, o.height, o.metadata, s)
    \/ \E id \in ImageIds : deleteImage(id)
    \/ \E n \in VariantNames : getVariantDetails(n)
    \/ \E n \in VariantNames, o \in VariantOptions :
            updateVariant_get(n, o.fit, o.width, o.height, o.metadata)
    \/ updateVariant_post
    \/ \E n \in VariantNames : deleteVariant(n)
    \/ \E id \in ImageIds : getImageDetails(id)
    \/ \E d \in SampleDomains, id \in ImageIds, v \in VariantNames :
            getCustomizedURL(d, id, v)
    \/ ServerStep
    \/ Finalize

Spec == Init /\ [][Next]_vars

-----------------------------------------------------------------------------
(* getCustomizedURL alone, on every domain string of the bounded set below *)

BodyChars == {"a", "B", "."}

RECURSIVE SeqsUpTo(_, _)
SeqsUpTo(S, n) ==
    IF n = 0 THEN {<<>>}
    ELSE LET shorter == SeqsUpTo(S, n - 1)
         IN  shorter \cup { Append(t, c) : t \in shorter, c \in S }

\* Every way of writing s in upper and lower case
RECURSIVE Casings(_)
Casings(s) ==
    IF s = <<>> THEN {<<>>}
    ELSE { <<c>> \o rest : c \in {LowerChar(Head(s)), UpperChar(Head(s))},
                           rest \in Casings(Tail(s)) }

SchemePrefixes == {<<>>} \cup Casings(HTTP) \cup Casings(HTTPS)

BodyParts == SeqsUpTo(BodyChars, MaxBodyLen)

\* What may stand in the middle of a domain string: nothing, a scheme, or a
\* scheme cut short
Middles ==
    { <<>>, HTTP, HTTPS, <<"H", "t", "t", "p", ":", "/", "/">>,
      <<"h", "t", "t", "p", ":", "/">> }

Domains ==
    { p \o b1 \o m \o b2 : p \in SchemePrefixes, b1 \in BodyParts, m \in Middles,
                           b2 \in BodyParts }

DeliveryArgs == { <<"id1", "thumb">>, <<"ID2", "Hero">> }

InitURL == Init /\ serverVariants = <<>>

NextURL ==
    /\ lastCall = NoCall
    /\ \E d \in Domains, a \in DeliveryArgs : getCustomizedURL(d, a[1], a[2])

SpecURL == InitURL /\ [][NextURL]_vars

-----------------------------------------------------------------------------
(* Properties *)

Called(op) == lastCall.op = op /\ pc = "idle"

IsBare(d) == ~StartsWith(Lower(d), HTTP) /\ ~StartsWith(Lower(d), HTTPS)

\* C1: whatever the domain, imageId and variant, the string getCustomizedURL
\* returns starts with "https://".
C1_StartsWithHttps ==
    Called("getCustomizedURL") =>
        /\ result.kind = "return"
        /\ StartsWith(result.value, HTTPS)

\* getCustomizedURL has returned for a domain that came without a scheme
C1_Witness ==
    /\ Called("getCustomizedURL")
    /\ lastCall.args.domain # <<>>
    /\ IsBare(lastCall.args.domain)
    /\ StartsWith(result.value, HTTPS)

\* C2: for every bare domain d (no scheme prefix), every imageId and variant,
\* getCustomizedURL of d, of "http://" + d and of "https://" + d, in any
\* upper/lower-casing, all return "https://" + lower(d) +
\* "/cdn-cgi/imagedelivery/<accountHash>/<imageId>/<variant>".
C2_SchemeAndCaseNormalized ==
    Called("getCustomizedURL") =>
        \A p \in SchemePrefixes :
            LET dom == lastCall.args.domain
                d == SubSeq(dom, Len(p) + 1, Len(dom))
            IN  (StartsWith(dom, p) /\ IsBare(d)) =>
                    result.value = HTTPS \o Lower(d)
                        \o DeliveryPath(ctor.accountHash, lastCall.args.imageId,
                                        lastCall.args.variant)

\* C3: the payload of createDirectUploadLink's request always has the key
\* requireSignedURLs, has the key metadata exactly when metaData is not None,
\* and has the key expiry exactly when expiry is not None.
C3_PayloadKeys ==
    Called("createDirectUploadLink") =>
        /\ Len(reqs) = 1
        /\ reqs[1].kind = "params"
        /\ LET payload == reqs[1].data
               a == lastCall.args
           IN  /\ "requireSignedURLs" \in DOMAIN payload
               /\ payload["requireSignedURLs"] = a.requireSignedURLs
               /\ ("metadata" \in DOMAIN payload) <=> (a.metaData # None)
               /\ ("expiry" \in DOMAIN payload) <=> (a.expiry # None)
               /\ DOMAIN payload \subseteq {"requireSignedURLs", "metadata", "expiry"}

\* createDirectUploadLink was called with neither metaData nor expiry, and the
\* payload has the one key
C3_Witness ==
    /\ Called("createDirectUploadLink")
    /\ lastCall.args.metaData = None
    /\ lastCall.args.expiry = None
    /\ DOMAIN reqs[1].data = {"requireSignedURLs"}

\* C4: each field of updateVariant's POSTed payload (fit, metadata, width,
\* height) is the call's argument for that field when it differs from the
\* fetched value and the fetched value otherwise, so each field equals the
\* argument, height included.
C4_PayloadEqualsArguments ==
    (Called("updateVariant") /\ Len(reqs) = 2) =>
        LET payload == reqs[2].data
            a == lastCall.args
        IN  /\ payload.fit = (IF details.fit # a.fitType THEN a.fitType ELSE details.fit)
            /\ payload.metadata = (IF details.metadata # a.metaDataToSave
                                   THEN a.metaDataToSave ELSE details.metadata)
            /\ payload.width = (IF details.width # a.width THEN a.width ELSE details.width)
            /\ payload.height = (IF details.height # a.height THEN a.height
                                 ELSE details.height)
            /\ payload = [fit |-> a.fitType, metadata |-> a.metaDataToSave,
                          width |-> a.width, height |-> a.height]

WellFormed(descriptor) ==
    /\ "result" \in DOMAIN descriptor
    /\ "uploadURL" \in DOMAIN descriptor.result

\* C5: upload of a readable file issues exactly one request, a multipart POST
\* of that file to descriptor["result"]["uploadURL"], and returns the body of
\* the response as it came, not decoded; the file's format, size and
\* dimensions are not looked at.
C5_OnePostRawText ==
    (/\ Called("upload")
     /\ lastCall.args.imagePath.readable
     /\ WellFormed(lastCall.args.directUploadResponse)) =>
        /\ Len(reqs) = 1
        /\ reqs[1].method = "POST"
        /\ reqs[1].url = lastCall.args.directUploadResponse.result.uploadURL
        /\ reqs[1].kind = "files"
        /\ reqs[1].data = [file |-> lastCall.args.imagePath]
        /\ resps[1].ok => result = Return(resps[1].body)

\* upload has sent a file that is of no supported format and over every limit,
\* and returned a body that is not JSON
C5_Witness ==
    /\ Called("upload")
    /\ ~checkIfImageSupported(lastCall.args.imagePath)
    /\ lastCall.args.imagePath.width > MAX_WIDTH
    /\ lastCall.args.imagePath.sizeMB > MAX_SIZE_MB
    /\ lastCall.args.imagePath.height <= MAX_HEIGHT
    /\ Len(reqs) = 1
    /\ reqs[1].url = "https://x/up"
    /\ result = Return(HtmlBody)

HasAuth(r) ==
    /\ {"X-Auth-Key", "X-Auth-Email"} \subseteq DOMAIN r.headers
    /\ r.headers["X-Auth-Key"] = ctor.apiKey
    /\ r.headers["X-Auth-Email"] = ctor.email

\* C6: every request any method issues carries X-Auth-Key equal to the apiKey
\* and X-Auth-Email equal to the email the client was constructed with.
C6_AuthHeaders == \A i \in 1..Len(reqs) : HasAuth(reqs[i])

\* updateVariant has issued both its requests, each with the headers
C6_Witness ==
    /\ Called("updateVariant")
    /\ Len(reqs) = 2
    /\ HasAuth(reqs[1])
    /\ HasAuth(reqs[2])

\* C7: after any sequence of calls, failed or not, the stored apiKey,
\* accountId, email, accountHash and auth headers are the constructor's
\* arguments, and so are the accountId in every request URL the client builds
\* and the accountHash in every delivery URL.
C7_CredentialsImmutable ==
    /\ apiKey = ctor.apiKey
    /\ accountId = ctor.accountId
    /\ email = ctor.email
    /\ accountHash = ctor.accountHash
    /\ DOMAIN requestHeaders = {"X-Auth-Key", "X-Auth-Email"}
    /\ requestHeaders["X-Auth-Key"] = ctor.apiKey
    /\ requestHeaders["X-Auth-Email"] = ctor.email
    /\ \A i \in 1..Len(reqs) :
            reqs[i].kind # "files" =>
                /\ SubSeq(reqs[i].url, 1, 2) = <<ENDPOINT_BASE, "/accounts/">>
                /\ reqs[i].url[3] = ctor.accountId
    /\ lastCall.op = "getCustomizedURL" =>
            LET n == Len(result.value)
            IN  SubSeq(result.value, n - 5, n - 4)
                    = <<"/cdn-cgi/imagedelivery/", ctor.accountHash>>

\* a call has failed after an earlier call left a file handle behind, and the
\* credentials are as constructed
C7_Witness ==
    /\ pc = "idle"
    /\ result.kind = "raise"
    /\ lastCall.op = "deleteImage"
    /\ openHandles > 0
    /\ accountId = ctor.accountId
    /\ reqs[1].url[3] = ctor.accountId

GetFailed ==
    \/ ~resps[1].ok
    \/ ~resps[1].body.valid
    \/ "result" \notin DOMAIN resps[1].body.doc

\* C8: updateVariant issues a GET of the variant and then a POST to the same
\* variant; when the GET fails there is no POST; when the variant changes on
\* the service between the two, the POST is still issued, once, with the
\* payload computed from the values the GET fetched.
C8_ReadThenWrite ==
    lastCall.op = "updateVariant" =>
        /\ Len(reqs) >= 1
        /\ reqs[1].method = "GET"
        /\ reqs[1].url = VariantURL(lastCall.args.name)
        /\ pc = "updateVariant_post" => Len(reqs) = 1 /\ ~GetFailed
        /\ (pc = "idle" /\ GetFailed) => Len(reqs) = 1 /\ result.kind = "raise"
        /\ (pc = "idle" /\ ~GetFailed) =>
                LET a == lastCall.args
                    fetched == resps[1].body.doc.result[a.name].options
                IN  /\ Len(reqs) = 2
                    /\ Len(resps) = 2
                    /\ reqs[2].method = "POST"
                    /\ reqs[2].url = reqs[1].url
                    /\ reqs[2].kind = "json"
                    /\ reqs[2].data = UpdatePayload(fetched, a.fitType, a.width,
                                                    a.height, a.metaDataToSave)
                    /\ result = JsonOf(resps[2])

\* updateVariant has returned after the variant was changed on the service
\* between its GET and its POST
C8_Witness ==
    /\ Called("updateVariant")
    /\ staleAtPost
    /\ Len(reqs) = 2
    /\ result.kind = "return"

\* C9: upload of a path that cannot be opened raises IOError, issues no
\* request and leaves the client's state as it was.
C9_OpenFailure ==
    (Called("upload") /\ ~lastCall.args.imagePath.readable) =>
        /\ result = Raise("IOError")
        /\ reqs = <<>>
        /\ resps = <<>>
        /\ <<apiKey, accountId, email, accountHash>>
                = <<ctor.apiKey, ctor.accountId, ctor.email, ctor.accountHash>>
        /\ requestHeaders = RequestHeaders(ctor.apiKey, ctor.email)

\* upload has raised IOError for a missing file and a well-formed descriptor
C9_Witness ==
    /\ Called("upload")
    /\ ~lastCall.args.imagePath.readable
    /\ WellFormed(lastCall.args.directUploadResponse)
    /\ result = Raise("IOError")
    /\ reqs = <<>>

\* C10: the file upload opens is closed when upload finishes, whether the POST
\* succeeded or failed, so once a call is over no file handle opened by upload
\* is open.
C10_NoHandleLeftOpen == pc = "idle" => openHandles = 0

=============================================================================
